---------------------------- MODULE Spec2Model ----------------------------
(***************************************************************************)
(* hawkauthlib: Hawk request signing and checking (hawkauthlib/__init__.py)*)
(* and the nonce cache behind it (hawkauthlib/noncecache.py).              *)
(*                                                                         *)
(* The specifications of the module:                                       *)
(*   Spec         sign_request and check_signature, one whole call per     *)
(*                step, on one request object and the default nonce cache; *)
(*   SpecCalls    sign_request, get_id, get_signature and verify_payload   *)
(*                on requests of several schemes, ports and headers, with  *)
(*                and without an available body;                           *)
(*   SpecNonce    check_nonce calls on one NonceCache while the clock      *)
(*                advances;                                                *)
(*   SpecBacklog  check_nonce calls with enough nonces for more entries to *)
(*                expire than one call purges;                             *)
(*   SpecThreads  several threads inside check_signature / check_nonce /   *)
(*                Cache.set at the granularity of the shared reads and     *)
(*                writes the interpreter can interleave;                   *)
(*   SpecCache    Cache.set and Cache.get on one sized Cache, one whole    *)
(*                call per step, while the clock advances;                 *)
(*   SpecPurge    Cache.set on a Cache, with or without max_size, whose    *)
(*                purge queue outgrows one TTL phase;                      *)
(*   SpecCacheThreads  several threads inside Cache.set on a sized Cache.  *)
(***************************************************************************)
EXTENDS Integers, Sequences, FiniteSets, TLC

(***************************************************************************)
(* Bounds of the model.                                                    *)
(***************************************************************************)
\* the clock get_time() runs over 0 .. MaxTime
MaxTime == 3
\* the window ("window" argument of NonceCache; 60 by default)
Window == 2
\* the nonces of SpecNonce are 1 .. NumNonces (their order is the order of
\* the strings)
NumNonces == 2
\* threads of SpecThreads
NumThreads == 2

(***************************************************************************)
(* Program constants.                                                      *)
(***************************************************************************)
\* noncecache.py:72  "for _ in range(5)"
PurgeBatch == 5
\* __init__.py:137  hash_payload(request, algorithm=None) takes 2 arguments
HashPayloadMaxArgs == 2
\* __init__.py:177  verify_payload calls hash_payload(request, params, algorithm)
VerifyPayloadPassesArgs == 3

Nonces == 1..NumNonces
ReqNonces == {1}
Threads == 1..NumThreads

(***************************************************************************)
(* Cache (noncecache.py).  A cache is a record                             *)
(*   items        the dict  key -> CacheItem(value, timestamp)             *)
(*   purge_queue  the heap of (timestamp, key), kept here as the sorted    *)
(*                sequence heapq pops it in                                *)
(*   ttl, max_size   (max_size 0 stands for None: both are falsy)          *)
(***************************************************************************)
NoItems == [k \in {} |-> [value |-> TRUE, timestamp |-> 0]]

CacheItem(value, timestamp) == [value |-> value, timestamp |-> timestamp]

CacheInit(ttl, max_size) ==
    [items |-> NoItems, purge_queue |-> <<>>, ttl |-> ttl, max_size |-> max_size]

\* Python's order on the tuples (timestamp, key)
TupleLess(a, b) == a[1] < b[1] \/ (a[1] = b[1] /\ a[2] < b[2])

\* a queue that keeps the order of insertion
HeapPushFifo(q, e) == Append(q, e)

RECURSIVE HeapPush(_, _)
HeapPush(q, e) ==
    IF q = <<>> THEN <<e>>
    ELSE IF TupleLess(e, Head(q)) THEN <<e>> \o q
    ELSE <<Head(q)>> \o HeapPush(Tail(q), e)

DictPop(items, key) == [k \in DOMAIN items \ {key} |-> items[k]]

DictSet(items, key, item) ==
    [k \in DOMAIN items \cup {key} |-> IF k = key THEN item ELSE items[k]]

CacheLen(c) == Cardinality(DOMAIN c.items)

\* Cache.__contains__
CacheContains(c, key, now) ==
    IF key \notin DOMAIN c.items THEN FALSE
    ELSE IF c.items[key].timestamp + c.ttl <= now THEN FALSE
    ELSE TRUE

\* Cache.get with "<" for the "<=" of line 52
CacheGetLate(c, key, now) ==
    IF key \notin DOMAIN c.items THEN [exc |-> "KeyError", val |-> FALSE]
    ELSE IF c.items[key].timestamp + c.ttl < now THEN [exc |-> "KeyError", val |-> FALSE]
    ELSE [exc |-> "", val |-> c.items[key].value]

\* Cache.get: the value, or exc = "KeyError"
CacheGet(c, key, now) ==
    IF key \notin DOMAIN c.items THEN [exc |-> "KeyError", val |-> FALSE]
    ELSE IF c.items[key].timestamp + c.ttl <= now THEN [exc |-> "KeyError", val |-> FALSE]
    ELSE [exc |-> "", val |-> c.items[key].value]

\* _purge_item with "item.timestamp == timestamp" at line 90
PurgeItemInverted(c) ==
    LET timestamp == Head(c.purge_queue)[1]
        key == Head(c.purge_queue)[2]
        popped == DictPop(c.items, key)
    IN  [c EXCEPT !.purge_queue = Tail(c.purge_queue),
                  !.items = IF key \in DOMAIN c.items
                               /\ c.items[key].timestamp = timestamp
                            THEN c.items
                            ELSE popped]

\* _purge_item that never puts an entry back
PurgeItemNoRestore(c) ==
    [c EXCEPT !.purge_queue = Tail(c.purge_queue),
              !.items = DictPop(c.items, Head(c.purge_queue)[2])]

\* Cache._purge_item; the caller has checked that the queue is not empty
\* (heappop of an empty heap raises IndexError)
PurgeItem(c) ==
    LET timestamp == Head(c.purge_queue)[1]
        key == Head(c.purge_queue)[2]
        popped == DictPop(c.items, key)
    IN  [c EXCEPT !.purge_queue = Tail(c.purge_queue),
                  !.items = IF key \in DOMAIN c.items
                               /\ c.items[key].timestamp # timestamp
                            THEN c.items
                            ELSE popped]

\* "while len(self.items) >= self.max_size: self._purge_item()"
\* raised: the IndexError of a heappop on an empty queue left the try block
RECURSIVE SizePurge(_)
SizePurge(c) ==
    IF c.max_size # 0 /\ CacheLen(c) >= c.max_size
    THEN IF c.purge_queue = <<>>
         THEN [cache |-> c, raised |-> TRUE]
         ELSE SizePurge(PurgeItem(c))
    ELSE [cache |-> c, raised |-> FALSE]

\* a TTL loop that goes on until the head of the queue is unexpired
RECURSIVE TtlPurgeUnbounded(_, _, _)
TtlPurgeUnbounded(c, purge_deadline, n) ==
    IF c.purge_queue = <<>> THEN c
    ELSE IF Head(c.purge_queue)[1] > purge_deadline THEN c
    ELSE TtlPurgeUnbounded(PurgeItem(c), purge_deadline, n)

\* a set without the TTL loop
TtlPurgeNone(c, purge_deadline, n) == c

\* "for _ in range(5): ..." with n iterations left
RECURSIVE TtlPurge(_, _, _)
TtlPurge(c, purge_deadline, n) ==
    IF n = 0 THEN c
    ELSE IF c.purge_queue = <<>> THEN c
    ELSE IF Head(c.purge_queue)[1] > purge_deadline THEN c
    ELSE TtlPurge(PurgeItem(c), purge_deadline, n - 1)

\* Cache.set(key, value, timestamp) at clock value now
CacheSet(c, key, value, timestamp, now) ==
    LET purge_deadline == now - c.ttl
        sized == SizePurge(c)
        purged == IF sized.raised THEN sized.cache
                  ELSE TtlPurge(sized.cache, purge_deadline, PurgeBatch)
    IN  [purged EXCEPT !.items = DictSet(purged.items, key, CacheItem(value, timestamp)),
                       !.purge_queue = HeapPush(purged.purge_queue, <<timestamp, key>>)]

(***************************************************************************)
(* NonceCache (noncecache.py): the window and the Cache _seen.             *)
(***************************************************************************)
NonceCacheInit(window, max_size) ==
    [window |-> window, seen |-> CacheInit(window, max_size)]

\* InWindow with the bounds let in
InWindowInclusive(nc, timestamp, now) ==
    (now - nc.window <= timestamp) /\ (timestamp <= now + nc.window)

\* "if not ts_min < timestamp < ts_max"
InWindow(nc, timestamp, now) ==
    (now - nc.window < timestamp) /\ (timestamp < now + nc.window)

\* check_nonce storing the nonce with the time of the check
CheckNonceCallAnchorsNow(nc, timestamp, nonce, now) ==
    IF ~InWindow(nc, timestamp, now)
    THEN [result |-> FALSE, cache |-> nc]
    ELSE IF CacheContains(nc.seen, nonce, now)
    THEN [result |-> FALSE, cache |-> nc]
    ELSE [result |-> TRUE,
          cache |-> [nc EXCEPT !.seen = CacheSet(nc.seen, nonce, TRUE, now, now)]]

\* check_nonce that purges before it refuses a nonce it holds
CheckNonceCallPurgesOnReject(nc, timestamp, nonce, now) ==
    IF ~InWindow(nc, timestamp, now)
    THEN [result |-> FALSE, cache |-> nc]
    ELSE IF CacheContains(nc.seen, nonce, now)
    THEN [result |-> FALSE,
          cache |-> [nc EXCEPT !.seen = TtlPurge(nc.seen, now - nc.seen.ttl, PurgeBatch)]]
    ELSE [result |-> TRUE,
          cache |-> [nc EXCEPT !.seen = CacheSet(nc.seen, nonce, TRUE, timestamp, now)]]

\* check_nonce that takes a nonce for seen only with the timestamp it is held with
CheckNonceCallKeyedByTimestamp(nc, timestamp, nonce, now) ==
    IF ~InWindow(nc, timestamp, now)
    THEN [result |-> FALSE, cache |-> nc]
    ELSE IF CacheContains(nc.seen, nonce, now) /\ nc.seen.items[nonce].timestamp = timestamp
    THEN [result |-> FALSE, cache |-> nc]
    ELSE [result |-> TRUE,
          cache |-> [nc EXCEPT !.seen = CacheSet(nc.seen, nonce, TRUE, timestamp, now)]]

\* NonceCache.check_nonce: the result and the cache after the call
CheckNonceCall(nc, timestamp, nonce, now) ==
    IF ~InWindow(nc, timestamp, now)
    THEN [result |-> FALSE, cache |-> nc]
    ELSE IF CacheContains(nc.seen, nonce, now)
    THEN [result |-> FALSE, cache |-> nc]
    ELSE [result |-> TRUE,
          cache |-> [nc EXCEPT !.seen = CacheSet(nc.seen, nonce, TRUE, timestamp, now)]]


(***************************************************************************)
(* Strings that matter character by character (the ts parameter) are       *)
(* sequences of one-character strings.                                     *)
(***************************************************************************)
DigitChars == <<"0", "1", "2", "3", "4", "5", "6", "7", "8", "9">>

IsDigit(ch) == \E i \in 1..10 : DigitChars[i] = ch

DigitVal(ch) == (CHOOSE i \in 1..10 : DigitChars[i] = ch) - 1

\* str(n) of an int
RECURSIVE DecStr(_)
DecStr(n) ==
    IF n < 0 THEN <<"-">> \o DecStr(0 - n)
    ELSE IF n < 10 THEN <<DigitChars[n + 1]>>
    ELSE DecStr(n \div 10) \o <<DigitChars[(n % 10) + 1]>>

RECURSIVE LStrip(_)
LStrip(s) == IF s # <<>> /\ Head(s) = " " THEN LStrip(Tail(s)) ELSE s

RECURSIVE RStrip(_)
RStrip(s) ==
    IF s # <<>> /\ s[Len(s)] = " " THEN RStrip(SubSeq(s, 1, Len(s) - 1)) ELSE s

RECURSIVE DigitsValue(_, _)
DigitsValue(d, acc) ==
    IF d = <<>> THEN acc
    ELSE IF Head(d) = "_" THEN DigitsValue(Tail(d), acc)
    ELSE DigitsValue(Tail(d), 10 * acc + DigitVal(Head(d)))

\* int(s) of a str, base 10: surrounding whitespace, one optional sign, then
\* digits, single underscores allowed between digits.  ok = FALSE is ValueError.
IntParse(s) ==
    LET t == RStrip(LStrip(s))
        signed == t # <<>> /\ Head(t) \in {"+", "-"}
        d == IF signed THEN Tail(t) ELSE t
        ok == /\ d # <<>>
              /\ IsDigit(d[1])
              /\ IsDigit(d[Len(d)])
              /\ \A i \in 1..Len(d) :
                    \/ IsDigit(d[i])
                    \/ (d[i] = "_" /\ i > 1 /\ IsDigit(d[i - 1]))
    IN  [ok |-> ok,
         val |-> IF ~ok THEN 0
                 ELSE IF signed /\ Head(t) = "-" THEN 0 - DigitsValue(d, 0)
                 ELSE DigitsValue(d, 0)]

(***************************************************************************)
(* Requests and Hawk parameters.                                           *)
(*   request.url    the URL scheme and the Host header's explicit port     *)
(*   request.body   the body                                               *)
(*   request.authz  the Authorization header, as the dict                  *)
(*                  parse_authz_header(request, {}) returns for it: the    *)
(*                  parameters and "scheme"; the empty dict when the       *)
(*                  header is missing or malformed                         *)
(***************************************************************************)
NoParams == [k \in {} |-> ""]

Has(params, name) == name \in DOMAIN params

ParamSet(params, name, v) ==
    [k \in DOMAIN params \cup {name} |-> IF k = name THEN v ELSE params[k]]

ParamDel(params, name) == [k \in DOMAIN params \ {name} |-> params[k]]

\* hashlib names; "None" is the argument None, "md5" a name ALGORITHMS lacks
ALGORITHMS == {"sha1", "sha256"}

DefaultAlgorithm(algorithm) == IF algorithm = "None" THEN "sha256" ELSE algorithm

\* the value the signing string holds when params has no "hash"
NoHash == [alg |-> "", body |-> ""]

\* the body of a request whose body bytes are not available:
\* utils.get_normalized_payload_string gives None for it
NoBody == "unavailable"

\* the None that hash_payload returns, lines 144-145
HashNone == [alg |-> "None", body |-> "None"]

\* hash_payload(request, algorithm): exc is the exception raised, if any
HashPayload(request, algorithm) ==
    IF request.body = NoBody
    THEN [exc |-> "", val |-> HashNone]
    ELSE IF DefaultAlgorithm(algorithm) \notin ALGORITHMS
    THEN [exc |-> "KeyError", val |-> NoHash]
    ELSE [exc |-> "", val |-> [alg |-> DefaultAlgorithm(algorithm), body |-> request.body]]

\* a call of hash_payload with nargs positional arguments
HashPayloadApply(nargs, request, algorithm) ==
    IF nargs > HashPayloadMaxArgs
    THEN [exc |-> "TypeError", val |-> NoHash]
    ELSE HashPayload(request, algorithm)

\* a request's url is the record of its scheme and of the port its Host header
\* names after the last colon ("" when the header names none)
Url(scheme, port) == [scheme |-> scheme, port |-> port]

\* ResolvePort giving every scheme the port 80
ResolvePortAlways80(url) ==
    IF url.port # "" THEN [ok |-> TRUE, port |-> url.port]
    ELSE IF url.scheme = "https" THEN [ok |-> TRUE, port |-> "443"]
    ELSE [ok |-> TRUE, port |-> "80"]

\* utils: the port of the signing string; ok = FALSE is ValueError
ResolvePort(url) ==
    IF url.port # "" THEN [ok |-> TRUE, port |-> url.port]
    ELSE IF url.scheme = "http" THEN [ok |-> TRUE, port |-> "80"]
    ELSE IF url.scheme = "https" THEN [ok |-> TRUE, port |-> "443"]
    ELSE [ok |-> FALSE, port |-> ""]

\* utils.get_signature(request, key, params, algorithm): the MAC is an
\* injective function of the key, the algorithm and the signing string's fields;
\* the fields are strings, and a None among them is TypeError
UtilsGetSignature(request, key, params, algorithm) ==
    IF ~Has(params, "ts") \/ ~Has(params, "nonce")
    THEN [exc |-> "KeyError", val |-> <<>>]
    ELSE IF ~ResolvePort(request.url).ok
    THEN [exc |-> "ValueError", val |-> <<>>]
    ELSE IF Has(params, "hash") /\ params.hash = HashNone
    THEN [exc |-> "TypeError", val |-> <<>>]
    ELSE IF DefaultAlgorithm(algorithm) \notin ALGORITHMS
    THEN [exc |-> "KeyError", val |-> <<>>]
    ELSE [exc |-> "",
          val |-> <<key, DefaultAlgorithm(algorithm), params.ts, params.nonce,
                    ResolvePort(request.url).port,
                    IF Has(params, "hash") THEN params.hash ELSE NoHash,
                    IF Has(params, "ext") THEN params.ext ELSE "">>]

\* utils.strings_differ
StringsDiffer(a, b) == a # b

\* verify_payload(request, params, algorithm)
VerifyPayload(request, params, algorithm) ==
    IF ~Has(params, "hash")
    THEN [exc |-> "KeyError", val |-> FALSE]
    ELSE LET h == HashPayloadApply(VerifyPayloadPassesArgs, request, algorithm)
         IN  IF h.exc # ""
             THEN [exc |-> h.exc, val |-> FALSE]
             ELSE [exc |-> "", val |-> ~StringsDiffer(params.hash, h.val)]

\* the result of a check_signature call that touched no cache
Answer(result, stage, nc) ==
    [result |-> result, stage |-> stage, consulted |-> FALSE, cache |-> nc]

\* how lines 221-230 end: exc the exception raised, ret "False" for a
\* "return False", both empty when control reaches the nonce check
Raised(exc, stage) == [exc |-> exc, ret |-> "", stage |-> stage]

Returned(ret, stage) == [exc |-> "", ret |-> ret, stage |-> stage]

\* lines 228-230 of check_signature
PayloadStage(request, params, verify_payload_hash, algorithm) ==
    LET vp == VerifyPayload(request, params, algorithm)
    IN  IF verify_payload_hash /\ Has(params, "hash")
        THEN IF vp.exc # "" THEN Raised(vp.exc, "payload_raises")
             ELSE IF ~vp.val THEN Returned("False", "payload_differs")
             ELSE Returned("", "")
        ELSE Returned("", "")

\* VerifyStage without the comparison of line 225
VerifyStageNoCompare(request, key, verify_payload_hash, algorithm) ==
    LET params == request.authz
        sig == UtilsGetSignature(request, key, params, algorithm)
    IN  IF ~Has(params, "ts") THEN Raised("KeyError", "ts_missing")
        ELSE IF ~IntParse(params.ts).ok THEN Raised("ValueError", "ts_invalid")
        ELSE IF ~Has(params, "nonce") THEN Raised("KeyError", "nonce_missing")
        ELSE IF sig.exc # "" THEN Raised(sig.exc, "sig_raises")
        ELSE IF ~Has(params, "mac") THEN Raised("KeyError", "mac_missing")
        ELSE PayloadStage(request, params, verify_payload_hash, algorithm)

\* lines 221-230 of check_signature: the timestamp, the nonce, the MAC and
\* the payload hash
VerifyStage(request, key, verify_payload_hash, algorithm) ==
    LET params == request.authz
        sig == UtilsGetSignature(request, key, params, algorithm)
    IN  IF ~Has(params, "ts") THEN Raised("KeyError", "ts_missing")
        ELSE IF ~IntParse(params.ts).ok THEN Raised("ValueError", "ts_invalid")
        ELSE IF ~Has(params, "nonce") THEN Raised("KeyError", "nonce_missing")
        ELSE IF sig.exc # "" THEN Raised(sig.exc, "sig_raises")
        ELSE IF ~Has(params, "mac") THEN Raised("KeyError", "mac_missing")
        ELSE IF StringsDiffer(params.mac, sig.val)
        THEN Returned("False", "mac_differs")
        ELSE PayloadStage(request, params, verify_payload_hash, algorithm)

\* an except clause that catches ValueError only
CaughtValueErrorOnly(exc) == exc = "ValueError"

\* "except (KeyError, ValueError): return False"
Caught(exc) == exc \in {"KeyError", "ValueError"}

\* lines 234-236 of check_signature, reached with ts and nonce present
NonceStage(params, useNonces, nc, now) ==
    LET cn == CheckNonceCall(nc, IntParse(params.ts).val, params.nonce, now)
    IN  IF ~useNonces
        THEN Answer("True", "unchecked_nonce", nc)
        ELSE [result |-> IF cn.result THEN "True" ELSE "False",
              stage |-> IF cn.result THEN "fresh_nonce" ELSE "stale_nonce",
              consulted |-> TRUE,
              cache |-> cn.cache]

\* the try block with the nonce check moved ahead of the signature check
TryBlockNonceFirst(request, key, verify_payload_hash, algorithm, useNonces, nc, now) ==
    LET params == request.authz
        v == VerifyStage(request, key, verify_payload_hash, algorithm)
        early == Has(params, "ts") /\ IntParse(params.ts).ok /\ Has(params, "nonce")
        n == NonceStage(params, useNonces, nc, now)
    IN  IF ~early
        THEN Answer(IF Caught(v.exc) THEN "False" ELSE v.exc, v.stage, nc)
        ELSE IF n.result = "False" THEN n
        ELSE IF v.exc # ""
        THEN [n EXCEPT !.result = IF Caught(v.exc) THEN "False" ELSE v.exc,
                       !.stage = v.stage]
        ELSE IF v.ret = "False"
        THEN [n EXCEPT !.result = "False", !.stage = v.stage]
        ELSE n

\* the try block of check_signature, lines 220-238, and the return of line 239
TryBlock(request, key, verify_payload_hash, algorithm, useNonces, nc, now) ==
    LET v == VerifyStage(request, key, verify_payload_hash, algorithm)
    IN  IF v.exc # ""
        THEN Answer(IF Caught(v.exc) THEN "False" ELSE v.exc, v.stage, nc)
        ELSE IF v.ret = "False"
        THEN Answer("False", v.stage, nc)
        ELSE NonceStage(request.authz, useNonces, nc, now)

\* check_signature without the test of line 216
CheckSignatureCallNoRequire(request, key, require_payload_hash, verify_payload_hash, algorithm, useNonces, nc, now) ==
    LET params == request.authz
    IN  IF ~Has(params, "scheme") \/ params.scheme # "Hawk"
        THEN Answer("False", "scheme", nc)
        ELSE TryBlock(request, key, verify_payload_hash, algorithm, useNonces, nc, now)

\* check_signature from "params = utils.parse_authz_header(request, {})" on.
\* useNonces: "nonces is not False"; nc: the NonceCache nonces names.
\* result is "True", "False" or the name of the exception that leaves the call;
\* stage names the statement that ended the call; consulted: check_nonce ran.
CheckSignatureCall(request, key, require_payload_hash, verify_payload_hash, algorithm, useNonces, nc, now) ==
    LET params == request.authz
    IN  IF ~Has(params, "scheme") \/ params.scheme # "Hawk"
        THEN Answer("False", "scheme", nc)
        ELSE IF require_payload_hash /\ ~Has(params, "hash")
        THEN Answer("False", "require_hash", nc)
        ELSE TryBlock(request, key, verify_payload_hash, algorithm, useNonces, nc, now)

\* sign_request that computes the mac before it sets the hash
SignRequestFromMacFirst(request, params, id_, key, include_payload_hash, algorithm, now, rnd) ==
    LET p1 == ParamSet(params, "id", id_)
        p2 == IF Has(p1, "ts") THEN p1 ELSE ParamSet(p1, "ts", DecStr(now))
        p3 == IF Has(p2, "nonce") THEN p2 ELSE ParamSet(p2, "nonce", rnd)
        h == HashPayloadApply(2, request, algorithm)
        sig == UtilsGetSignature(request, key, p3, algorithm)
        p4 == IF include_payload_hash THEN ParamSet(p3, "hash", h.val) ELSE p3
        p5 == ParamSet(p4, "mac", sig.val)
    IN  IF sig.exc # ""
        THEN [exc |-> sig.exc, request |-> request, params |-> p3]
        ELSE IF include_payload_hash /\ h.exc # ""
        THEN [exc |-> h.exc, request |-> request, params |-> p3]
        ELSE [exc |-> "", params |-> p5,
              request |-> [request EXCEPT !.authz = ParamSet(p5, "scheme", "Hawk")]]

\* sign_request that always takes the ts from the clock
SignRequestFromFreshTs(request, params, id_, key, include_payload_hash, algorithm, now, rnd) ==
    LET p1 == ParamSet(params, "id", id_)
        p2 == ParamSet(p1, "ts", DecStr(now))
        p3 == IF Has(p2, "nonce") THEN p2 ELSE ParamSet(p2, "nonce", rnd)
        h == HashPayloadApply(2, request, algorithm)
        p4 == IF include_payload_hash THEN ParamSet(p3, "hash", h.val) ELSE p3
        sig == UtilsGetSignature(request, key, p4, algorithm)
        p5 == ParamSet(p4, "mac", sig.val)
    IN  IF include_payload_hash /\ h.exc # ""
        THEN [exc |-> h.exc, request |-> request, params |-> p3]
        ELSE IF sig.exc # ""
        THEN [exc |-> sig.exc, request |-> request, params |-> p4]
        ELSE [exc |-> "", params |-> p5,
              request |-> [request EXCEPT !.authz = ParamSet(p5, "scheme", "Hawk")]]

\* lines 78-91 of sign_request, from the starting parameters params: exc is
\* the exception raised, if any, request the request after the call, params
\* the dict params after the call
SignRequestFrom(request, params, id_, key, include_payload_hash, algorithm, now, rnd) ==
    LET p1 == ParamSet(params, "id", id_)
        p2 == IF Has(p1, "ts") THEN p1 ELSE ParamSet(p1, "ts", DecStr(now))
        p3 == IF Has(p2, "nonce") THEN p2 ELSE ParamSet(p2, "nonce", rnd)
        h == HashPayloadApply(2, request, algorithm)
        p4 == IF include_payload_hash THEN ParamSet(p3, "hash", h.val) ELSE p3
        sig == UtilsGetSignature(request, key, p4, algorithm)
        p5 == ParamSet(p4, "mac", sig.val)
    IN  IF include_payload_hash /\ h.exc # ""
        THEN [exc |-> h.exc, request |-> request, params |-> p3]
        ELSE IF sig.exc # ""
        THEN [exc |-> sig.exc, request |-> request, params |-> p4]
        ELSE [exc |-> "", params |-> p5,
              request |-> [request EXCEPT !.authz = ParamSet(p5, "scheme", "Hawk")]]

\* sign_request(request, id_, key, include_payload_hash, algorithm) with
\* params=None at clock value now, os.urandom giving the nonce rnd; lines
\* 73-77: the starting parameters are those of the request's header when it
\* is a Hawk header, none otherwise
SignRequestCall(request, id_, key, include_payload_hash, algorithm, now, rnd) ==
    LET parsed == request.authz
        start == IF DOMAIN parsed # {} /\ parsed.scheme # "Hawk"
                 THEN NoParams
                 ELSE ParamDel(parsed, "scheme")
    IN  SignRequestFrom(request, start, id_, key, include_payload_hash, algorithm, now, rnd)

\* get_id that does not look at the scheme
GetIdAnyScheme(request) ==
    LET params == request.authz
    IN  IF Has(params, "id") THEN params.id ELSE "None"

\* get_id(request): the id, or "None" for None
GetId(request) ==
    LET params == request.authz
    IN  IF ~Has(params, "scheme") \/ params.scheme # "Hawk" THEN "None"
        ELSE IF Has(params, "id") THEN params.id
        ELSE "None"

\* get_signature that sets "hash" in the mapping it was given
GetSignatureCallNoCopy(request, key, include_payload_hash, algorithm, params) ==
    LET alg == DefaultAlgorithm(algorithm)
        h == HashPayloadApply(2, request, alg)
        p == IF include_payload_hash THEN ParamSet(params, "hash", h.val) ELSE params
        sig == UtilsGetSignature(request, key, p, alg)
    IN  IF include_payload_hash /\ h.exc # ""
        THEN [exc |-> h.exc, val |-> <<>>, params |-> params, request |-> request]
        ELSE [exc |-> sig.exc, val |-> sig.val, params |-> p, request |-> request]

\* get_signature(request, key, include_payload_hash, algorithm, params): the
\* exception raised, if any, the MAC returned, and the mapping params and the
\* request as the call leaves them
GetSignatureCall(request, key, include_payload_hash, algorithm, params) ==
    LET alg == DefaultAlgorithm(algorithm)
        h == HashPayloadApply(2, request, alg)
        copy == params
        p == IF include_payload_hash THEN ParamSet(copy, "hash", h.val) ELSE params
        sig == UtilsGetSignature(request, key, p, alg)
    IN  IF include_payload_hash /\ h.exc # ""
        THEN [exc |-> h.exc, val |-> <<>>, params |-> params, request |-> request]
        ELSE [exc |-> sig.exc, val |-> sig.val, params |-> params, request |-> request]

(***************************************************************************)
(* Inputs.                                                                 *)
(***************************************************************************)
Keys == {"k1", "k2"}
\* the key the client holds
SignKeys == {"k1"}
Ids == {"id1"}
Urls == {Url("http", "")}
Bodies == {"", "a"}
AlgorithmArgs == {"None", "sha1", "md5"}
\* the argument nonces: None (the default cache) or False
NoncesArgs == {"None", "False"}

\* ts values a header can carry: str(t) of a clock value, and strings that
\* are no plain decimal number
OddTs == {<<"x">>, <<" ", "1">>}
TsStrings == {DecStr(0 - Window), DecStr(1 - Window), DecStr(Window)} \cup OddTs

\* Authorization headers a request can carry before it is signed
PreHeaders ==
    {NoParams}
    \cup {[scheme |-> "Hawk", ts |-> s] : s \in TsStrings}
    \cup {[scheme |-> "Hawk", nonce |-> n] : n \in ReqNonces}
    \cup {[scheme |-> "Digest", nonce |-> n] : n \in ReqNonces}

\* what can happen to a request between the client and the check
Tampers == {"none", "bust_mac", "scheme", "drop_ts", "drop_nonce",
            "drop_mac", "drop_hash", "body", "url_typo"}

OtherBody(b) == IF b = "" THEN "a" ELSE ""

Tamper(request, t) ==
    LET p == request.authz
    IN  CASE t = "bust_mac" /\ Has(p, "mac") ->
               [request EXCEPT !.authz = ParamSet(p, "mac", Append(p.mac, "XXX"))]
          [] t = "scheme" /\ Has(p, "scheme") ->
               [request EXCEPT !.authz = ParamSet(p, "scheme", "OAuth")]
          [] t = "drop_ts" -> [request EXCEPT !.authz = ParamDel(p, "ts")]
          [] t = "drop_nonce" -> [request EXCEPT !.authz = ParamDel(p, "nonce")]
          [] t = "drop_mac" -> [request EXCEPT !.authz = ParamDel(p, "mac")]
          [] t = "drop_hash" -> [request EXCEPT !.authz = ParamDel(p, "hash")]
          [] t = "body" -> [request EXCEPT !.body = OtherBody(request.body)]
          [] t = "url_typo" -> [request EXCEPT !.url = Url("httptypo", "")]
          [] OTHER -> request

(***************************************************************************)
(* State.                                                                  *)
(***************************************************************************)
VARIABLES
    now,                  \* what get_time() / time.time() returns
    request,              \* the request object
    caches,               \* the NonceCache objects: 0 is one the caller made,
                          \* k > 0 the k-th one check_signature constructed
    DEFAULT_NONCE_CACHE,  \* the global: None, or the cache it names
    made,                 \* how many NonceCache() check_signature constructed
    last,                 \* the last call: what was called and what it gave
    th,                   \* SpecThreads: each thread's call and its locals
    purge_lock            \* SpecThreads: per cache, the thread holding
                          \* Cache.purge_lock (NoThread when free)

vars == <<now, request, caches, DEFAULT_NONCE_CACHE, made, last, th, purge_lock>>

None == 0 - 1
NoThread == 0 - 1
CacheIds == 0..NumThreads

\* the calls each thread of SpecThreads makes
MaxCalls == 2

\* a thread between calls.  kind, c, key, value, ts: the call, the cache it
\* is on and its arguments; n, ret, top, item: the locals of Cache.set and
\* _purge_item; res: what the call returned; left: calls still to make;
\* pre: the items when the thread took purge_lock; during, preAns, torn:
\* what a lock-free reader saw while another thread was inside set
Idle ==
    [pc |-> "idle", kind |-> "", c |-> 0, key |-> 0, value |-> TRUE, ts |-> 0,
     n |-> 0, ret |-> "", top |-> <<>>, item |-> <<>>, res |-> FALSE,
     left |-> MaxCalls, pre |-> NoItems, during |-> NoThread, preAns |-> FALSE,
     torn |-> FALSE]

InitThreads ==
    /\ th = [t \in Threads |-> Idle]
    /\ purge_lock = [c \in CacheIds |-> NoThread]

Init ==
    /\ now = 0
    /\ request = [url |-> Url("http", ""), body |-> "", authz |-> NoParams]
    /\ caches = [c \in CacheIds |-> NonceCacheInit(Window, 0)]
    /\ DEFAULT_NONCE_CACHE = None
    /\ made = 0
    /\ last = [op |-> "init", result |-> "None", stage |-> ""]
    /\ InitThreads

\* the clock advances
Tick ==
    /\ now < MaxTime
    /\ now' = now + 1
    /\ UNCHANGED <<request, caches, DEFAULT_NONCE_CACHE, made, last, th, purge_lock>>

\* the caller takes a new request object
NewRequest(url, body, authz) ==
    /\ request' = [url |-> url, body |-> body, authz |-> authz]
    /\ last' = [op |-> "new", result |-> "None", stage |-> ""]
    /\ UNCHANGED <<now, caches, DEFAULT_NONCE_CACHE, made, th, purge_lock>>

SignRequest(id_, key, include_payload_hash, algorithm, rnd) ==
    LET out == SignRequestCall(request, id_, key, include_payload_hash, algorithm, now, rnd)
    IN  /\ request' = out.request
        /\ last' = [op |-> "sign_request",
                    result |-> IF out.exc = "" THEN "None" ELSE out.exc,
                    stage |-> ""]
        /\ UNCHANGED <<now, caches, DEFAULT_NONCE_CACHE, made, th, purge_lock>>

\* lines 207-211 of check_signature: whether the call constructs the default
\* cache, and the cache object the argument nonces then names
Constructs(nonces) == nonces = "None" /\ DEFAULT_NONCE_CACHE = None

NoncesObject(nonces) ==
    IF DEFAULT_NONCE_CACHE = None THEN made + 1 ELSE DEFAULT_NONCE_CACHE

\* check_signature(received, key, ...) in the current state
CheckSignatureNow(received, key, require_payload_hash, verify_payload_hash, algorithm, nonces) ==
    CheckSignatureCall(received, key, require_payload_hash, verify_payload_hash,
                       algorithm, nonces # "False", caches[NoncesObject(nonces)], now)

\* check_signature on the request as tampered with on the way
CheckSignature(t, key, require_payload_hash, verify_payload_hash, algorithm, nonces) ==
    LET out == CheckSignatureNow(Tamper(request, t), key, require_payload_hash,
                                 verify_payload_hash, algorithm, nonces)
    IN  /\ made' = IF Constructs(nonces) THEN made + 1 ELSE made
        /\ DEFAULT_NONCE_CACHE' =
               IF Constructs(nonces) THEN made + 1 ELSE DEFAULT_NONCE_CACHE
        /\ caches' = IF nonces = "False" THEN caches
                     ELSE [caches EXCEPT ![NoncesObject(nonces)] = out.cache]
        /\ last' = [op |-> "check_signature", result |-> out.result,
                    stage |-> out.stage]
        /\ UNCHANGED <<now, request, th, purge_lock>>

Next ==
    \/ \E url \in Urls, body \in Bodies, authz \in PreHeaders :
           NewRequest(url, body, authz)
    \/ \E id_ \in Ids, key \in SignKeys, inc \in BOOLEAN, alg \in AlgorithmArgs,
          rnd \in ReqNonces :
           SignRequest(id_, key, inc, alg, rnd)
    \/ \E t \in Tampers, key \in Keys, req \in BOOLEAN, ver \in BOOLEAN,
          alg \in AlgorithmArgs, nonces \in NoncesArgs :
           CheckSignature(t, key, req, ver, alg, nonces)

\* Spec: the signing and checking API, one whole call per step, the clock
\* standing still
Spec == Init /\ [][Next]_vars

(***************************************************************************)
(* SpecCalls: the functions that read a request and change nothing,        *)
(* get_id, get_signature and verify_payload, called on requests of several *)
(* schemes and ports, signed or not, as they arrive.                       *)
(***************************************************************************)
CallUrls ==
    {Url("http", ""), Url("https", ""), Url("http", "8000"),
     Url("gopher", ""), Url("gopher", "70")}

\* Authorization headers of SpecCalls: also one that carries all but the mac
CallHeaders ==
    PreHeaders
    \cup {[scheme |-> "Hawk", id |-> i, ts |-> DecStr(0), nonce |-> n] :
              i \in Ids, n \in ReqNonces}
    \cup {[scheme |-> "Hawk", nonce |-> n, ext |-> "app"] : n \in ReqNonces}

\* algorithm arguments hashlib has
KnownAlgorithmArgs == {"None", "sha1"}

\* ids of SpecCalls: also one that no header carries
CallIds == Ids \cup {"id2"}

\* dicts a caller passes as params to sign_request
ExplicitParams ==
    {NoParams, [ts |-> DecStr(0 - 1)], [nonce |-> 1, ext |-> "app"]}

\* sign_request(request, id_, key, include_payload_hash, algorithm, params)
\* with a dict params: stage is the caller's dict after the call
SignRequestWith(params, id_, key, include_payload_hash, algorithm, rnd) ==
    LET out == SignRequestFrom(request, params, id_, key, include_payload_hash,
                               algorithm, now, rnd)
    IN  /\ request' = out.request
        /\ last' = [op |-> "sign_request_params",
                    result |-> IF out.exc = "" THEN "None" ELSE out.exc,
                    stage |-> out.params]
        /\ UNCHANGED <<now, caches, DEFAULT_NONCE_CACHE, made, th, purge_lock>>

\* get_id(received)
GetIdOf(t) ==
    LET r == Tamper(request, t)
    IN  /\ last' = [op |-> "get_id", result |-> GetId(r), stage |-> t]
        /\ UNCHANGED <<now, request, caches, DEFAULT_NONCE_CACHE, made, th, purge_lock>>

\* get_signature(request, key, include_payload_hash, algorithm, params), the
\* caller's params being the parameters of the request's own header
GetSignature(key, include_payload_hash, algorithm) ==
    LET out == GetSignatureCall(request, key, include_payload_hash, algorithm,
                                request.authz)
    IN  /\ request' = [out.request EXCEPT !.authz = out.params]
        /\ last' = [op |-> "get_signature",
                    result |-> IF out.exc = "" THEN "mac" ELSE out.exc,
                    stage |-> IF include_payload_hash THEN "fresh_hash" ELSE "claimed_hash"]
        /\ UNCHANGED <<now, caches, DEFAULT_NONCE_CACHE, made, th, purge_lock>>

\* verify_payload(received, params, algorithm)
VerifyPayloadOf(t, algorithm) ==
    LET r == Tamper(request, t)
        out == VerifyPayload(r, r.authz, algorithm)
    IN  /\ last' = [op |-> "verify_payload",
                    result |-> IF out.exc # "" THEN out.exc
                               ELSE IF out.val THEN "True" ELSE "False",
                    stage |-> <<t, algorithm>>]
        /\ UNCHANGED <<now, request, caches, DEFAULT_NONCE_CACHE, made, th, purge_lock>>

NextCalls ==
    \/ \E url \in CallUrls, body \in Bodies, authz \in CallHeaders :
           NewRequest(url, body, authz)
    \/ \E authz \in CallHeaders : NewRequest(Url("http", ""), NoBody, authz)
    \/ \E id_ \in Ids, key \in SignKeys, inc \in BOOLEAN, alg \in KnownAlgorithmArgs,
          rnd \in ReqNonces :
           SignRequest(id_, key, inc, alg, rnd)
    \/ \E params \in ExplicitParams, key \in SignKeys, inc \in BOOLEAN, rnd \in ReqNonces :
           SignRequestWith(params, "id2", key, inc, "None", rnd)
    \/ \E t \in Tampers : GetIdOf(t)
    \/ \E key \in Keys, inc \in BOOLEAN, alg \in AlgorithmArgs :
           GetSignature(key, inc, alg)
    \/ \E t \in Tampers, alg \in KnownAlgorithmArgs : VerifyPayloadOf(t, alg)

SpecCalls == Init /\ [][NextCalls]_vars

(***************************************************************************)
(* SpecNonce: check_nonce calls on one NonceCache, caches[0], made with or *)
(* without max_size, while the clock advances.                             *)
(***************************************************************************)
\* the max_size of the sized cache
MaxSize == 1

\* timestamps a caller can pass at clock value t
TimestampsAt(t) == (t - Window - 1)..(t + Window + 1)

InitNonce ==
    /\ now = 0
    /\ request = [url |-> Url("http", ""), body |-> "", authz |-> NoParams]
    /\ \E max_size \in {0, MaxSize} :
           caches = [c \in CacheIds |-> NonceCacheInit(Window, max_size)]
    /\ DEFAULT_NONCE_CACHE = None
    /\ made = 0
    /\ last = [op |-> "init", result |-> "None", stage |-> ""]
    /\ InitThreads

\* the keys of the map whose timestamp + ttl has passed at time t
ExpiredKeys(c, t) == {k \in DOMAIN c.items : c.items[k].timestamp + c.ttl <= t}

\* where the timestamp lies for the cache, and whether the nonce is held
NonceCase(nc, timestamp, nonce) ==
    IF timestamp < now - nc.window THEN "below_min"
    ELSE IF timestamp = now - nc.window THEN "at_min"
    ELSE IF timestamp = now + nc.window THEN "at_max"
    ELSE IF timestamp > now + nc.window THEN "above_max"
    ELSE IF nonce \notin DOMAIN nc.seen.items THEN "new"
    ELSE IF nc.seen.items[nonce].timestamp = timestamp THEN "held"
    ELSE "held_other_ts"

\* caches[0].check_nonce(timestamp, nonce)
CheckNonce(timestamp, nonce) ==
    LET out == CheckNonceCall(caches[0], timestamp, nonce, now)
    IN  /\ caches' = [caches EXCEPT ![0] = out.cache]
        /\ last' = IF out.result
                   THEN [op |-> "check_nonce", result |-> "True",
                         stage |-> NonceCase(caches[0], timestamp, nonce),
                         ts |-> timestamp, nonce |-> nonce]
                   ELSE [op |-> "check_nonce", result |-> "False",
                         stage |-> NonceCase(caches[0], timestamp, nonce),
                         backlog |-> ExpiredKeys(caches[0].seen, now) # {}]
        /\ UNCHANGED <<now, request, DEFAULT_NONCE_CACHE, made, th, purge_lock>>

NextNonce ==
    \/ Tick
    \/ \E timestamp \in TimestampsAt(now), nonce \in Nonces :
           CheckNonce(timestamp, nonce)

SpecNonce == InitNonce /\ [][NextNonce]_vars

(***************************************************************************)
(* SpecBacklog: check_nonce calls, one after another, with enough nonces   *)
(* for more entries to expire than one TTL phase pops.  Clients send the   *)
(* current time as timestamp.  Accepted calls keep occurring.              *)
(***************************************************************************)
BacklogNonces == 1..(PurgeBatch + 1)

\* an accepted check_nonce call: a write
AcceptedWrite ==
    \E nonce \in BacklogNonces :
        CheckNonce(now, nonce) /\ last'.result = "True"

NextBacklog ==
    \/ Tick
    \/ \E nonce \in BacklogNonces : CheckNonce(now, nonce)

SpecBacklog == InitNonce /\ [][NextBacklog]_vars /\ WF_vars(AcceptedWrite)

(***************************************************************************)
(* SpecThreads: threads inside check_signature (the default cache),        *)
(* check_nonce and Cache.set, and lock-free readers ("key in cache"), one  *)
(* shared read or write per step.  caches[0] is a NonceCache the callers   *)
(* share; caches[k], k > 0, is the k-th NonceCache check_signature made.   *)
(* The requests checked carry a ts and a nonce and pass lines 213-230.     *)
(***************************************************************************)
ThreadNonces == {1, 2}
ThreadKinds == {"check_signature", "check_nonce", "contains"}

Goto(t, fields) == th' = [th EXCEPT ![t] = fields @@ th[t]]

SeenOf(t) == caches[th[t].c].seen

SetSeen(t, seen) == caches' = [caches EXCEPT ![th[t].c].seen = seen]

\* the call returns
Done(res) ==
    [pc |-> "done", res |-> res, n |-> 0, ret |-> "", top |-> <<>>,
     item |-> <<>>, pre |-> NoItems]

\* check_nonce lines 134-139 on cache c: thread-local but for the clock
EnterCheckNonce(t, c) ==
    IF InWindow(caches[c], th[t].ts, now)
    THEN [pc |-> "cn_contains", c |-> c]
    ELSE Done(FALSE) @@ [c |-> c]

\* NextInSet with "while len(self.items) > self.max_size"
RECURSIVE NextInSetLax(_, _, _, _)
NextInSetLax(seen, phase, n, tnow) ==
    IF phase = "set_size"
    THEN IF seen.max_size # 0 /\ CacheLen(seen) > seen.max_size
         THEN IF seen.purge_queue = <<>>
              THEN [pc |-> "set_insert", ret |-> "", n |-> 0]
              ELSE [pc |-> "purge_pop", ret |-> "set_size", n |-> 0]
         ELSE NextInSetLax(seen, "set_ttl", PurgeBatch, tnow)
    ELSE IF \/ n = 0
            \/ seen.purge_queue = <<>>
            \/ Head(seen.purge_queue)[1] > tnow - seen.ttl
         THEN [pc |-> "set_insert", ret |-> "", n |-> 0]
         ELSE [pc |-> "purge_pop", ret |-> "set_ttl", n |-> n - 1]

\* where Cache.set goes next, lines 67-76, the lock held: the tests of the
\* while loop (phase "set_size") and of the for loop (phase "set_ttl", n
\* turns left) up to the next write
RECURSIVE NextInSet(_, _, _, _)
NextInSet(seen, phase, n, tnow) ==
    IF phase = "set_size"
    THEN IF seen.max_size # 0 /\ CacheLen(seen) >= seen.max_size
         THEN IF seen.purge_queue = <<>>
              THEN [pc |-> "set_insert", ret |-> "", n |-> 0]
              ELSE [pc |-> "purge_pop", ret |-> "set_size", n |-> 0]
         ELSE NextInSet(seen, "set_ttl", PurgeBatch, tnow)
    ELSE IF \/ n = 0
            \/ seen.purge_queue = <<>>
            \/ Head(seen.purge_queue)[1] > tnow - seen.ttl
         THEN [pc |-> "set_insert", ret |-> "", n |-> 0]
         ELSE [pc |-> "purge_pop", ret |-> "set_ttl", n |-> n - 1]

\* a thread calls check_signature(request, key) for a request carrying the
\* ts now and the nonce 1, or check_nonce(ts, nonce) on the shared cache, or
\* evaluates "nonce in cache._seen" on it.  Threads are interchangeable: they
\* make their first calls in the order of their numbers.
Start(t, kind, timestamp, nonce) ==
    LET call == [kind |-> kind, c |-> 0, key |-> nonce,
                 ts |-> IF kind = "contains" THEN 0 ELSE timestamp,
                 left |-> th[t].left - 1, res |-> FALSE, during |-> NoThread,
                 preAns |-> FALSE, torn |-> FALSE]
    IN  /\ th[t].pc \in {"idle", "done"}
        /\ th[t].left > 0
        /\ kind = "contains" => timestamp = now
        /\ kind = "check_signature" => (timestamp = now /\ nonce = 1)
        /\ \A u \in Threads : u < t => th[u].left < MaxCalls
        /\ th' = [th EXCEPT ![t] =
                     CASE kind = "check_signature" -> [pc |-> "cs_load"] @@ call @@ th[t]
                       [] kind = "check_nonce" ->
                            [pc |-> IF InWindow(caches[0], timestamp, now)
                                    THEN "cn_contains" ELSE "done"] @@ call @@ th[t]
                       [] OTHER -> [pc |-> "contains"] @@ call @@ th[t]]
        /\ UNCHANGED <<now, request, caches, DEFAULT_NONCE_CACHE, made, last, purge_lock>>

\* line 208: nonces = DEFAULT_NONCE_CACHE
LoadDefault(t) ==
    /\ th[t].pc = "cs_load"
    /\ IF DEFAULT_NONCE_CACHE = None
       THEN Goto(t, [pc |-> "cs_make"])
       ELSE Goto(t, EnterCheckNonce(t, DEFAULT_NONCE_CACHE))
    /\ UNCHANGED <<now, request, caches, DEFAULT_NONCE_CACHE, made, last, purge_lock>>

\* line 210: nonces = DEFAULT_NONCE_CACHE = NonceCache()
MakeDefault(t) ==
    /\ th[t].pc = "cs_make"
    /\ made' = made + 1
    /\ DEFAULT_NONCE_CACHE' = made + 1
    /\ Goto(t, EnterCheckNonce(t, made + 1))
    /\ UNCHANGED <<now, request, caches, last, purge_lock>>

\* check_nonce lines 141-142: "if nonce in self._seen", no lock taken
CnContains(t) ==
    /\ th[t].pc = "cn_contains"
    /\ IF CacheContains(SeenOf(t), th[t].key, now)
       THEN Goto(t, Done(FALSE))
       ELSE Goto(t, [pc |-> "set_lock"])
    /\ UNCHANGED <<now, request, caches, DEFAULT_NONCE_CACHE, made, last, purge_lock>>

\* Cache.set lines 57-62: "with self.purge_lock", and the tests up to the
\* first write
SetLock(t) ==
    /\ th[t].pc = "set_lock"
    /\ purge_lock[th[t].c] = NoThread
    /\ purge_lock' = [purge_lock EXCEPT ![th[t].c] = t]
    /\ Goto(t, NextInSet(SeenOf(t), "set_size", 0, now) @@ [pre |-> SeenOf(t).items])
    /\ UNCHANGED <<now, request, caches, DEFAULT_NONCE_CACHE, made, last>>

\* _purge_item lines 88-89: heappop, then self.items.pop(key, None); line 90
\* decides whether the item goes back
PurgePop(t) ==
    LET seen == SeenOf(t)
        top == Head(seen.purge_queue)
        item == IF top[2] \in DOMAIN seen.items THEN <<seen.items[top[2]]>> ELSE <<>>
        popped == [seen EXCEPT !.purge_queue = Tail(seen.purge_queue),
                               !.items = DictPop(seen.items, top[2])]
    IN  /\ th[t].pc = "purge_pop"
        /\ SetSeen(t, popped)
        /\ IF item # <<>> /\ item[1].timestamp # top[1]
           THEN Goto(t, [pc |-> "purge_restore", top |-> top, item |-> item])
           ELSE Goto(t, NextInSet(popped, th[t].ret, th[t].n, now))
        /\ UNCHANGED <<now, request, DEFAULT_NONCE_CACHE, made, last, purge_lock>>

\* _purge_item line 91: self.items[key] = item
PurgeRestore(t) ==
    LET seen == SeenOf(t)
        restored == [seen EXCEPT !.items = DictSet(seen.items, th[t].top[2],
                                                   th[t].item[1])]
    IN  /\ th[t].pc = "purge_restore"
        /\ SetSeen(t, restored)
        /\ Goto(t, NextInSet(restored, th[t].ret, th[t].n, now)
                   @@ [top |-> <<>>, item |-> <<>>])
        /\ UNCHANGED <<now, request, DEFAULT_NONCE_CACHE, made, last, purge_lock>>

\* what a reader that looked while thread h was inside set gets to know when
\* the set is over: torn, if its answer is neither the one the cache gave
\* before the set nor the one it gives after
Judge(r, h, after) ==
    IF r.pc = "done" /\ r.kind = "contains" /\ r.during = h
    THEN [r EXCEPT !.during = NoThread,
                   !.torn = /\ r.res # r.preAns
                            /\ r.res # CacheContains(after, r.key, now)]
    ELSE r

\* lines 80-81, the end of the with block, and check_nonce's "return True"
SetInsert(t) ==
    LET seen == SeenOf(t)
        after == [seen EXCEPT
                     !.items = DictSet(seen.items, th[t].key,
                                       CacheItem(th[t].value, th[t].ts)),
                     !.purge_queue = HeapPush(seen.purge_queue, <<th[t].ts, th[t].key>>)]
    IN  /\ th[t].pc = "set_insert"
        /\ SetSeen(t, after)
        /\ purge_lock' = [purge_lock EXCEPT ![th[t].c] = NoThread]
        /\ th' = [u \in Threads |->
                     IF u = t THEN Done(TRUE) @@ th[t]
                     ELSE Judge(th[u], t, after)]
        /\ UNCHANGED <<now, request, DEFAULT_NONCE_CACHE, made, last>>

\* Cache.__contains__ lines 41-48 on the shared cache: no lock taken
Contains(t) ==
    LET h == purge_lock[th[t].c]
    IN  /\ th[t].pc = "contains"
        /\ Goto(t, Done(CacheContains(SeenOf(t), th[t].key, now))
                   @@ [during |-> h,
                       preAns |-> IF h = NoThread THEN FALSE
                                  ELSE CacheContains([SeenOf(t) EXCEPT !.items = th[h].pre],
                                                     th[t].key, now)])
        /\ UNCHANGED <<now, request, caches, DEFAULT_NONCE_CACHE, made, last, purge_lock>>

\* the clock advances between calls
TickBetweenCalls ==
    /\ \A t \in Threads : th[t].pc \in {"idle", "done"}
    /\ Tick

Step(t) ==
    \/ \E kind \in ThreadKinds, timestamp \in now..(now + 1), nonce \in ThreadNonces :
           Start(t, kind, timestamp, nonce)
    \/ LoadDefault(t)
    \/ MakeDefault(t)
    \/ CnContains(t)
    \/ SetLock(t)
    \/ PurgePop(t)
    \/ PurgeRestore(t)
    \/ SetInsert(t)
    \/ Contains(t)

NextThreads ==
    \/ TickBetweenCalls
    \/ \E t \in Threads : Step(t)

SpecThreads == Init /\ [][NextThreads]_vars

(***************************************************************************)
(* SpecCache: Cache.set(key, value, timestamp) and Cache.get(key) on one   *)
(* Cache made with a max_size, caches[0]._seen, one whole call per step,   *)
(* while the clock advances.                                               *)
(* SpecCacheThreads: threads inside Cache.set on that cache, at the        *)
(* granularity of SpecThreads.                                             *)
(***************************************************************************)
\* the max_size of the cache
CacheMaxSize == 2
\* the set calls each thread of SpecCacheThreads makes
CacheCalls == 2
\* SpecCache: the caller stops calling set when purge_queue would grow longer
MaxQueue == 3

\* the keys of SpecCache
CacheKeys == {1, 2}
\* the keys of SpecCacheThreads: one more than the cache may hold
SetterKeys == 1..(CacheMaxSize + 1)
CacheValues == BOOLEAN

\* timestamps a caller passes to set at clock value t: the default, now, or
\* an older one
SetTimestampsAt(t) == {t - 1, t}

InitCache ==
    /\ now = 0
    /\ request = [url |-> Url("http", ""), body |-> "", authz |-> NoParams]
    /\ caches = [c \in CacheIds |-> NonceCacheInit(Window, CacheMaxSize)]
    /\ DEFAULT_NONCE_CACHE = None
    /\ made = 0
    /\ last = [op |-> "init", result |-> "None", stage |-> ""]
    /\ th = [t \in Threads |-> [Idle EXCEPT !.left = CacheCalls]]
    /\ purge_lock = [c \in CacheIds |-> NoThread]

\* what n calls of _purge_item on c met: entries whose key held another
\* timestamp (kept), entries whose key was not in the map (gone), and the
\* keys taken out of the map (removed)
RECURSIVE PopReport(_, _)
PopReport(c, n) ==
    IF n = 0 THEN [pops |-> 0, kept |-> 0, gone |-> 0, removed |-> {}]
    ELSE LET top == Head(c.purge_queue)
             rest == PopReport(PurgeItem(c), n - 1)
         IN  IF top[2] \notin DOMAIN c.items
             THEN [rest EXCEPT !.pops = @ + 1, !.gone = @ + 1]
             ELSE IF c.items[top[2]].timestamp # top[1]
             THEN [rest EXCEPT !.pops = @ + 1, !.kept = @ + 1]
             ELSE [rest EXCEPT !.pops = @ + 1, !.removed = @ \cup {top[2]}]

\* what the two purge phases of a set on c did, lines 67-69 and 72-76
SetReport(c, purge_deadline) ==
    LET sized == SizePurge(c).cache
        purged == IF SizePurge(c).raised THEN sized
                  ELSE TtlPurge(sized, purge_deadline, PurgeBatch)
    IN  [size |-> PopReport(c, Len(c.purge_queue) - Len(sized.purge_queue)),
         ttl |-> PopReport(sized, Len(sized.purge_queue) - Len(purged.purge_queue))]

\* cache.set(key, value, timestamp), lines 56-81, by a caller that stops when
\* purge_queue would grow longer than limit
SetWithin(limit, key, value, timestamp) ==
    LET after == CacheSet(caches[0].seen, key, value, timestamp, now)
    IN  /\ Len(after.purge_queue) <= limit
        /\ caches' = [caches EXCEPT ![0].seen = after]
        /\ last' = [op |-> "set", result |-> "None",
                    stage |-> SetReport(caches[0].seen, now - caches[0].seen.ttl)]
        /\ UNCHANGED <<now, request, DEFAULT_NONCE_CACHE, made, th, purge_lock>>

Set(key, value, timestamp) == SetWithin(MaxQueue, key, value, timestamp)

\* cache.get(key), lines 50-54
Get(key) ==
    LET out == CacheGet(caches[0].seen, key, now)
    IN  /\ last' = [op |-> "get",
                    result |-> IF out.exc # "" THEN out.exc
                               ELSE IF out.val THEN "True" ELSE "False",
                    stage |-> key]
        /\ UNCHANGED <<now, request, caches, DEFAULT_NONCE_CACHE, made, th, purge_lock>>

NextCache ==
    \/ Tick
    \/ \E key \in CacheKeys, value \in CacheValues, timestamp \in SetTimestampsAt(now) :
           Set(key, value, timestamp)
    \/ \E key \in CacheKeys : Get(key)

SpecCache == InitCache /\ [][NextCache]_vars

(***************************************************************************)
(* SpecPurge: set calls, one after another, on a Cache whose purge queue   *)
(* may hold more entries than one TTL phase pops.                          *)
(***************************************************************************)
\* the queue length at which the caller of SpecPurge stops
LongQueue == PurgeBatch + 1

InitPurge ==
    /\ now = 0
    /\ request = [url |-> Url("http", ""), body |-> "", authz |-> NoParams]
    /\ \E max_size \in {0, CacheMaxSize} :
           caches = [c \in CacheIds |-> NonceCacheInit(Window, max_size)]
    /\ DEFAULT_NONCE_CACHE = None
    /\ made = 0
    /\ last = [op |-> "init", result |-> "None", stage |-> ""]
    /\ InitThreads

NextPurge ==
    \/ Tick
    \/ \E key \in CacheKeys, timestamp \in SetTimestampsAt(now) :
           SetWithin(LongQueue, key, TRUE, timestamp)

SpecPurge == InitPurge /\ [][NextPurge]_vars

\* a thread calls cache.set(key, True, timestamp), lines 56-61.  Threads are
\* interchangeable: they make their first calls in the order of their numbers.
StartSet(t, key, timestamp) ==
    /\ th[t].pc \in {"idle", "done"}
    /\ th[t].left > 0
    /\ \A u \in Threads : u < t => th[u].left < CacheCalls
    /\ Goto(t, [pc |-> "set_lock", kind |-> "set", c |-> 0, key |-> key,
                ts |-> timestamp, left |-> th[t].left - 1, res |-> FALSE])
    /\ UNCHANGED <<now, request, caches, DEFAULT_NONCE_CACHE, made, last, purge_lock>>

NextCacheThreads ==
    \/ TickBetweenCalls
    \/ \E t \in Threads, key \in SetterKeys, timestamp \in SetTimestampsAt(now) :
           StartSet(t, key, timestamp)
    \/ \E t \in Threads :
           SetLock(t) \/ PurgePop(t) \/ PurgeRestore(t) \/ SetInsert(t)

SpecCacheThreads == InitCache /\ [][NextCacheThreads]_vars

(***************************************************************************)
(* Properties of the signing and checking API (Spec).                      *)
(***************************************************************************)
\* the claimed mac is the MAC of the request under key and algorithm
MacMatches(r, key, algorithm) ==
    LET sig == UtilsGetSignature(r, key, r.authz, algorithm)
    IN  sig.exc = "" /\ Has(r.authz, "mac") /\ r.authz.mac = sig.val

\* the claimed hash is the hash of the body the request carries
HashMatches(r, algorithm) ==
    /\ Has(r.authz, "hash")
    /\ DefaultAlgorithm(algorithm) \in ALGORITHMS
    /\ r.authz.hash = [alg |-> DefaultAlgorithm(algorithm), body |-> r.body]

IsHawk(r) == Has(r.authz, "scheme") /\ r.authz.scheme = "Hawk"

\* the request is what sign_request(request, id, key) with default options
\* has just made of a request that carried no ts and no nonce
SignedByDefault(key) ==
    /\ last.op = "sign_request" /\ last.result = "None"
    /\ IsHawk(request)
    /\ request.authz.ts = DecStr(now)
    /\ HashMatches(request, "None")
    /\ MacMatches(request, key, "None")

\* C2: in check_signature the nonce cache is consulted only after the claimed
\* mac has matched the recomputed MAC and, when payload verification is on and
\* a hash is claimed, the hash has matched the body; a call whose MAC
\* comparison fails neither reads nor writes the cache.
NonceCacheAfterMac ==
    \A t \in Tampers, key \in Keys, req \in BOOLEAN, ver \in BOOLEAN,
       alg \in AlgorithmArgs, nonces \in NoncesArgs :
        LET r == Tamper(request, t)
            out == CheckSignatureNow(r, key, req, ver, alg, nonces)
        IN  /\ out.consulted =>
                  /\ MacMatches(r, key, alg)
                  /\ (ver /\ Has(r.authz, "hash")) => HashMatches(r, alg)
            /\ ~MacMatches(r, key, alg) =>
                  /\ ~out.consulted
                  /\ out.cache = caches[NoncesObject(nonces)]

\* a forged request has been checked against the default cache, which exists
\* and holds nothing
ForgedLeftCacheEmpty ==
    /\ last.op = "check_signature" /\ last.stage = "mac_differs"
    /\ Has(request.authz, "nonce")
    /\ DEFAULT_NONCE_CACHE # None
    /\ caches[DEFAULT_NONCE_CACHE].seen.items = NoItems

\* C4: after sign_request(request, id, key) with default options,
\* check_signature(request, key, nonces=False) with default options returns True.
SignCheckRoundTrip ==
    \A key \in SignKeys :
        SignedByDefault(key) =>
            CheckSignatureNow(request, key, FALSE, TRUE, "None", "False").result = "True"

\* C5: check_signature returns True only if the claimed mac equals the MAC
\* recomputed from the request, the key and the claimed parameters; a request
\* whose mac differs from the recomputed MAC yields False under every setting
\* of the other options.
TrueOnlyIfMacMatches ==
    \A t \in Tampers, key \in Keys, req \in BOOLEAN, ver \in BOOLEAN,
       alg \in AlgorithmArgs, nonces \in NoncesArgs :
        LET r == Tamper(request, t)
            sig == UtilsGetSignature(r, key, r.authz, alg)
            out == CheckSignatureNow(r, key, req, ver, alg, nonces)
        IN  /\ out.result = "True" => MacMatches(r, key, alg)
            /\ (Has(r.authz, "mac") /\ sig.exc = "" /\ r.authz.mac # sig.val)
                   => out.result = "False"

\* a signed request whose mac no longer equals the recomputed MAC has been
\* checked and refused
AlteredMacRefused ==
    /\ last.op = "check_signature" /\ last.stage = "mac_differs"
    /\ last.result = "False"
    /\ \E alg \in AlgorithmArgs : MacMatches(request, "k1", alg)

\* C9: when the port cannot be resolved or the algorithm name is unknown,
\* check_signature raises and does not return False.
ConfigFaultsRaise ==
    \A t \in Tampers, key \in Keys, req \in BOOLEAN, ver \in BOOLEAN,
       alg \in AlgorithmArgs, nonces \in NoncesArgs :
        LET r == Tamper(request, t)
            out == CheckSignatureNow(r, key, req, ver, alg, nonces)
        IN  (/\ IsHawk(r)
             /\ Has(r.authz, "ts") /\ Has(r.authz, "nonce") /\ Has(r.authz, "mac")
             /\ IntParse(r.authz.ts).ok
             /\ (req => Has(r.authz, "hash"))
             /\ (~ResolvePort(r.url).ok \/ DefaultAlgorithm(alg) \notin ALGORITHMS))
            => out.result \notin {"True", "False"}

AcceptedOnceThroughCheckSignature ==
    \A key \in SignKeys :
        SignedByDefault(key) =>
            LET out == CheckSignatureNow(request, key, FALSE, TRUE, "None", "None")
                held == request.authz.nonce
                            \in DOMAIN caches[NoncesObject("None")].seen.items
            IN  out.result = IF held THEN "False" ELSE "True"

(***************************************************************************)
(* Properties of check_nonce (SpecNonce).                                  *)
(***************************************************************************)
\* a request carrying the given ts, signed by the client with key
SignedWithTs(timestamp, body, include_payload_hash, key) ==
    SignRequestCall([url |-> Url("http", ""), body |-> body,
                     authz |-> [scheme |-> "Hawk", ts |-> DecStr(timestamp)]],
                    "id1", key, include_payload_hash, "None", now, 1).request

Resolved(t) ==
    th[t].kind = "check_signature" /\ th[t].pc \notin {"cs_load", "cs_make"}

\* C6: the default nonce cache is constructed once, even when several threads
\* call check_signature without nonces for the first time at once, and every
\* caller checks its nonce against that one instance.
DefaultCacheMadeOnce ==
    /\ made <= 1
    /\ \A t \in Threads, u \in Threads :
           (Resolved(t) /\ Resolved(u)) => th[t].c = th[u].c

\* C7: of the check_nonce calls that threads make on the same cache with the
\* same in-window (timestamp, nonce), at most one returns True.
OneCallAcceptsThePair ==
    \A t \in Threads, u \in Threads :
        (/\ t # u
         /\ th[t].kind = "check_nonce" /\ th[u].kind = "check_nonce"
         /\ th[t].pc = "done" /\ th[u].pc = "done"
         /\ th[t].c = th[u].c /\ th[t].key = th[u].key /\ th[t].ts = th[u].ts)
        => ~(th[t].res /\ th[u].res)

\* C8: no caller that looks at the cache while a Cache.set is under way sees
\* anything but the cache before the set or the cache after it; a key that is
\* live before and after the set is never seen absent.
SetSeenAsOneStep ==
    \A t \in Threads : ~th[t].torn

(***************************************************************************)
(* Further properties of check_signature (Spec).                           *)
(***************************************************************************)
\* the request is a Hawk request whose ts is a number and whose mac is the
\* MAC under key and algorithm
WellSigned(r, key, algorithm) ==
    /\ IsHawk(r)
    /\ MacMatches(r, key, algorithm)
    /\ IntParse(r.authz.ts).ok

\* C11: for a request whose mac matches and whose hash was computed over the
\* original body, once the body is modified check_signature with nonces=False
\* returns False when verify_payload_hash is True and True when it is False.
TamperedBodyNeedsVerification ==
    \A key \in Keys, alg \in AlgorithmArgs, req \in BOOLEAN :
        (WellSigned(request, key, alg) /\ HashMatches(request, alg)) =>
            LET r == Tamper(request, "body")
            IN  /\ CheckSignatureNow(r, key, req, TRUE, alg, "False").result = "False"
                /\ CheckSignatureNow(r, key, req, FALSE, alg, "False").result = "True"

\* C13: when the scheme is not Hawk (no header, or one that does not parse,
\* included), and when require_payload_hash is True and params holds no hash,
\* check_signature returns False at lines 214-217, ahead of the MAC, and the
\* nonce cache is neither read nor written.
SchemeAndRequiredHashFirst ==
    \A t \in Tampers, key \in Keys, req \in BOOLEAN, ver \in BOOLEAN,
       alg \in AlgorithmArgs, nonces \in NoncesArgs :
        LET r == Tamper(request, t)
            out == CheckSignatureNow(r, key, req, ver, alg, nonces)
        IN  (~IsHawk(r) \/ (req /\ ~Has(r.authz, "hash"))) =>
                /\ out.result = "False"
                /\ out.stage \in {"scheme", "require_hash"}
                /\ ~out.consulted
                /\ out.cache = caches[NoncesObject(nonces)]

\* a request signed without a payload hash, its mac the right one, has been
\* refused for the hash it lacks, and the default cache holds nothing
RequiredHashRefused ==
    /\ last.op = "check_signature" /\ last.stage = "require_hash"
    /\ last.result = "False"
    /\ ~Has(request.authz, "hash")
    /\ \E alg \in AlgorithmArgs : WellSigned(request, "k1", alg)
    /\ DEFAULT_NONCE_CACHE # None
    /\ caches[DEFAULT_NONCE_CACHE].seen.items = NoItems

\* C16: with nonces=False check_signature reads no clock and no cache and
\* neither makes nor changes the default cache: its result is the same for
\* every cache and every clock value, and a correctly signed request is
\* accepted however old or new its ts.
NoncesFalseTouchesNoCache ==
    \A t \in Tampers, key \in Keys, req \in BOOLEAN, ver \in BOOLEAN,
       alg \in AlgorithmArgs :
        LET r == Tamper(request, t)
            out == CheckSignatureNow(r, key, req, ver, alg, "False")
        IN  /\ ~Constructs("False")
            /\ ~out.consulted
            /\ \A c \in CacheIds, tnow \in 0..MaxTime :
                   CheckSignatureCall(r, key, req, ver, alg, FALSE, caches[c], tnow).result
                       = out.result
            /\ (/\ WellSigned(r, key, alg)
                /\ (Has(r.authz, "hash") => HashMatches(r, alg))
                /\ (req => Has(r.authz, "hash")))
               => out.result = "True"

(***************************************************************************)
(* Properties of get_id, get_signature and verify_payload (SpecCalls).     *)
(***************************************************************************)
\* C12: verify_payload(request, params, algorithm) raises nothing and returns
\* True exactly when params holds a hash equal to the hash of the request's
\* body, False when the hash is absent or differs.
VerifyPayloadIsBoolean ==
    last.op = "verify_payload" =>
        LET r == Tamper(request, last.stage[1])
        IN  last.result = IF HashMatches(r, last.stage[2]) THEN "True" ELSE "False"

\* C14: get_id raises nothing; it returns the id when the header parses, its
\* scheme is Hawk and it holds an id, and None when the header is missing or
\* malformed, when the scheme is another one, or when there is no id.
GetIdGivesIdOrNone ==
    \A t \in Tampers :
        LET r == Tamper(request, t)
        IN  GetId(r) = IF IsHawk(r) /\ Has(r.authz, "id") THEN r.authz.id ELSE "None"

\* get_id has returned None for a signed request whose scheme had been
\* changed on the way, the id still in the header
ForeignSchemeGivesNone ==
    /\ last.op = "get_id" /\ last.stage = "scheme"
    /\ last.result = "None"
    /\ IsHawk(request) /\ Has(request.authz, "id") /\ Has(request.authz, "mac")

\* C15: a get_signature call leaves the mapping params, the request's
\* Authorization header, every nonce cache and the default cache as they
\* were, and the same call made again returns the same MAC.
GetSignatureIsPure ==
    [][last'.op = "get_signature" =>
          /\ request' = request
          /\ caches' = caches
          /\ DEFAULT_NONCE_CACHE' = DEFAULT_NONCE_CACHE
          /\ made' = made
          /\ \A key \in Keys, inc \in BOOLEAN, alg \in AlgorithmArgs :
                 LET first == GetSignatureCall(request, key, inc, alg, request.authz)
                     again == GetSignatureCall(request', key, inc, alg, request'.authz)
                 IN  again.exc = first.exc /\ again.val = first.val]_vars

\* get_signature has computed a fresh payload hash for a request signed
\* without one, and the header still holds no hash
FreshHashLeftNoTrace ==
    /\ last.op = "get_signature" /\ last.stage = "fresh_hash"
    /\ last.result = "mac"
    /\ Has(request.authz, "mac") /\ ~Has(request.authz, "hash")

\* C17: the port of the signing string is the explicit port of the Host
\* header when there is one; without one it is 80 for the scheme http and 443
\* for https, and for any other scheme the signing string is not built:
\* ValueError is raised.
PortOfSigningString ==
    \A key \in Keys, alg \in KnownAlgorithmArgs :
        (Has(request.authz, "ts") /\ Has(request.authz, "nonce")) =>
            LET out == GetSignatureCall(request, key, FALSE, alg, request.authz)
                url == request.url
            IN  IF url.port # "" THEN out.exc = "" /\ out.val[5] = url.port
                ELSE IF url.scheme = "http" THEN out.exc = "" /\ out.val[5] = "80"
                ELSE IF url.scheme = "https" THEN out.exc = "" /\ out.val[5] = "443"
                ELSE out.exc = "ValueError"

\* get_signature has raised ValueError for a request with a ts and a nonce
\* whose scheme has no default port and whose Host header names none
UnknownSchemeRaises ==
    /\ last.op = "get_signature" /\ last.result = "ValueError"
    /\ request.url.scheme \notin {"http", "https"} /\ request.url.port = ""
    /\ Has(request.authz, "ts") /\ Has(request.authz, "nonce")

(***************************************************************************)
(* Properties of the Cache (SpecCacheThreads, SpecCache).                  *)
(***************************************************************************)
\* C18: a Cache made with max_size = N > 0 never holds more than N items,
\* after every set and while sets are under way, whatever the keys and
\* timestamps set, however the threads' calls interleave.
SizeBound ==
    \A c \in CacheIds :
        caches[c].seen.max_size # 0 => CacheLen(caches[c].seen) <= caches[c].seen.max_size

\* a set has returned leaving the cache full and its queue longer than the
\* map, while another thread waits to set
FullWithStaleEntries ==
    LET seen == caches[0].seen
    IN  /\ CacheLen(seen) = seen.max_size
        /\ Len(seen.purge_queue) > CacheLen(seen)
        /\ \E t \in Threads, u \in Threads :
               /\ th[t].kind = "set" /\ th[t].pc = "done"
               /\ th[u].kind = "set" /\ th[u].pc = "set_lock"

\* the entries of the purge queue that match the map's entry for key
LiveEntries(c, key) ==
    {i \in 1..Len(c.purge_queue) :
        c.purge_queue[i] = <<c.items[key].timestamp, key>>}

\* C19 as amended: after any sequence of sets, every key of the items map has
\* at least one entry in the purge queue whose (timestamp, key) matches the
\* map's entry for the key.
QueueHoldsEveryKey ==
    LET c == caches[0].seen
    IN  \A key \in DOMAIN c.items : LiveEntries(c, key) # {}

\* C19: after any sequence of sets, every key of the items map has exactly
\* one entry in the purge queue whose (timestamp, key) matches the map's
\* entry for the key.
QueueHoldsEveryKeyOnce ==
    LET c == caches[0].seen
    IN  \A key \in DOMAIN c.items : Cardinality(LiveEntries(c, key)) = 1

\* a set has overwritten a key with the timestamp it had, so that two queue
\* entries match it, and a purge has taken another key out of the map and left
\* an older entry of that key in the queue
TwiceInQueueAfterPurge ==
    LET c == caches[0].seen
    IN  /\ last.op = "set"
        /\ \E key \in DOMAIN c.items : Cardinality(LiveEntries(c, key)) >= 2
        /\ \E i \in 1..Len(c.purge_queue) : c.purge_queue[i][2] \notin DOMAIN c.items

\* C20: get(key) returns the stored value and "key in cache" is True exactly
\* when the key is in the map and now < timestamp + ttl; from
\* timestamp + ttl = now on, get raises KeyError and "key in cache" is False,
\* the item still being in the map.
ExpiryOnLookup ==
    LET c == caches[0].seen
    IN  \A key \in CacheKeys :
            LET live == key \in DOMAIN c.items /\ now < c.items[key].timestamp + c.ttl
                out == CacheGet(c, key, now)
            IN  /\ CacheContains(c, key, now) = live
                /\ live => (out.exc = "" /\ out.val = c.items[key].value)
                /\ ~live => out.exc = "KeyError"

\* get has raised KeyError for a key whose item is in the map and counted by
\* len(), its timestamp + ttl being now
ExpiredStillCounted ==
    LET c == caches[0].seen
    IN  /\ last.op = "get" /\ last.result = "KeyError"
        /\ last.stage \in DOMAIN c.items
        /\ c.items[last.stage].timestamp + c.ttl = now
        /\ CacheLen(c) >= 1

(***************************************************************************)
(* Further properties of check_nonce (SpecNonce).                          *)
(***************************************************************************)
\* the last clock value at which a later check is tried
LaterTimesEnd == MaxTime + Window + 1

\* C21: on a cache without max_size, a nonce that check_nonce(t, n) accepts is
\* stored with the timestamp t; every check of n made at a time before t + W
\* is refused, whatever its timestamp, and from t + W on a check of n with a
\* timestamp inside the window is accepted; no other call takes the entry out
\* of the map before t + W.
TtlAnchoredAtClientTimestamp ==
    [][caches[0].seen.max_size = 0 =>
          /\ (last'.op = "check_nonce" /\ last'.result = "True") =>
                 /\ caches'[0].seen.items[last'.nonce].timestamp = last'.ts
                 /\ \A tnow \in now'..LaterTimesEnd :
                        \A ts \in TimestampsAt(tnow) :
                            CheckNonceCall(caches'[0], ts, last'.nonce, tnow).result
                                = (tnow >= last'.ts + Window
                                       /\ InWindow(caches'[0], ts, tnow))
          /\ \A n \in DOMAIN caches[0].seen.items :
                 now' < caches[0].seen.items[n].timestamp + Window =>
                     /\ n \in DOMAIN caches'[0].seen.items
                     /\ caches'[0].seen.items[n] = caches[0].seen.items[n]]_vars

\* a nonce the cache still held, expired, has been accepted again, on a cache
\* without max_size, with a timestamp that is not the time of the check
AcceptedAgainAfterExpiry ==
    /\ last.op = "check_nonce" /\ last.result = "True"
    /\ last.stage = "held_other_ts"
    /\ last.ts # now
    /\ caches[0].seen.max_size = 0
    /\ caches[0].seen.items[last.nonce].timestamp = last.ts

(***************************************************************************)
(* The purge phases of Cache.set (SpecCache, SpecPurge).                   *)
(***************************************************************************)
\* C22: when a set on a Cache with max_size finds the map full, the size
\* loop takes out of the map exactly as many entries as brings it under
\* max_size, the entries it leaves are as they were, and no entry it leaves
\* has a timestamp strictly smaller than an entry it took.
SizeBoundEvictsOldest ==
    LET c == caches[0].seen
        sized == SizePurge(c)
        evicted == DOMAIN c.items \ DOMAIN sized.cache.items
    IN  (c.max_size # 0 /\ CacheLen(c) >= c.max_size) =>
            /\ ~sized.raised
            /\ CacheLen(sized.cache) = c.max_size - 1
            /\ \A k \in DOMAIN sized.cache.items :
                   /\ k \in DOMAIN c.items
                   /\ sized.cache.items[k] = c.items[k]
                   /\ \A e \in evicted :
                          c.items[e].timestamp <= c.items[k].timestamp

\* a set has evicted a key by the size bound, passing an entry of a key that
\* had been set again on its way, and the map holds entries of two ages
EvictedTheOldest ==
    /\ last.op = "set"
    /\ last.stage.size.removed # {}
    /\ last.stage.size.kept > 0
    /\ \E k \in DOMAIN caches[0].seen.items, j \in DOMAIN caches[0].seen.items :
           caches[0].seen.items[k].timestamp < caches[0].seen.items[j].timestamp

\* C23: the TTL phase of a set pops at most 5 queue entries, the entries it
\* takes out of the map have timestamp + ttl <= now, and every entry it
\* leaves is as it was; on a cache without max_size a set leaves every
\* unexpired entry of another key as it was.
TtlPhaseTakesOnlyExpired ==
    LET c == caches[0].seen
        sized == SizePurge(c)
        purged == TtlPurge(sized.cache, now - c.ttl, PurgeBatch)
    IN  /\ ~sized.raised
        /\ Len(sized.cache.purge_queue) - Len(purged.purge_queue) <= PurgeBatch
        /\ \A k \in DOMAIN sized.cache.items :
               IF k \in DOMAIN purged.items
               THEN purged.items[k] = sized.cache.items[k]
               ELSE sized.cache.items[k].timestamp + c.ttl <= now
        /\ c.max_size = 0 =>
               \A key \in CacheKeys, timestamp \in SetTimestampsAt(now) :
                   LET after == CacheSet(c, key, TRUE, timestamp, now)
                   IN  \A k \in DOMAIN c.items \ {key} :
                           c.items[k].timestamp + c.ttl > now =>
                               /\ k \in DOMAIN after.items
                               /\ after.items[k] = c.items[k]

\* the TTL phase of a set has popped 5 entries and left an expired entry at
\* the head of the queue
BatchLeftExpiredEntries ==
    /\ last.op = "set"
    /\ last.stage.ttl.pops = PurgeBatch
    /\ last.stage.ttl.removed # {}
    /\ Head(caches[0].seen.purge_queue)[1] + caches[0].seen.ttl <= now

\* the cache after n calls of _purge_item
RECURSIVE AfterPops(_, _)
AfterPops(c, n) == IF n = 0 THEN c ELSE AfterPops(PurgeItem(c), n - 1)

\* C24: wherever a purge has got to in the queue, _purge_item takes the head
\* off the queue, and when the key of the head holds another timestamp in
\* the map, or is not in the map, the map is the same after the call.
StalePopLeavesMap ==
    \A n \in 0..(Len(caches[0].seen.purge_queue) - 1) :
        LET c == AfterPops(caches[0].seen, n)
            top == Head(c.purge_queue)
            after == PurgeItem(c)
        IN  /\ after.purge_queue = Tail(c.purge_queue)
            /\ (top[2] \notin DOMAIN c.items
                   \/ c.items[top[2]].timestamp # top[1]) =>
                   after.items = c.items

\* a set has popped an entry of a key that held another timestamp and an
\* entry of a key that was not in the map, and the first key is still held
StaleEntriesPopped ==
    /\ last.op = "set"
    /\ last.stage.size.kept + last.stage.ttl.kept > 0
    /\ last.stage.size.gone + last.stage.ttl.gone > 0
    /\ CacheLen(caches[0].seen) = caches[0].seen.max_size

(***************************************************************************)
(* Purging by writes (SpecBacklog).                                        *)
(***************************************************************************)
\* the number of queue entries whose timestamp + ttl has passed at time t
ExpiredQueued(c, t) ==
    Cardinality({i \in 1..Len(c.purge_queue) : c.purge_queue[i][1] + c.ttl <= t})

MacCoversEmittedParameters ==
    \A id_ \in CallIds, key \in SignKeys, inc \in BOOLEAN, alg \in KnownAlgorithmArgs,
       rnd \in ReqNonces :
        /\ LET out == SignRequestCall(request, id_, key, inc, alg, now, rnd)
           IN  out.exc = "" =>
                   /\ MacMatches(out.request, key, alg)
                   /\ out.request.authz = ParamSet(out.params, "scheme", "Hawk")
        /\ \A params \in ExplicitParams :
               LET out == SignRequestFrom(request, params, id_, key, inc, alg, now, rnd)
               IN  out.exc = "" =>
                       /\ MacMatches(out.request, key, alg)
                       /\ out.request.authz = ParamSet(out.params, "scheme", "Hawk")

\* sign_request has emitted a header with a hash it computed and an ext it
\* found, and the mac covers both
SignedWithHashAndExt ==
    /\ last.op \in {"sign_request", "sign_request_params"}
    /\ last.result = "None"
    /\ Has(request.authz, "ext")
    /\ \E alg \in KnownAlgorithmArgs :
           HashMatches(request, alg) /\ MacMatches(request, "k1", alg)

\* C27: sign_request never stores the None of hash_payload under hash, and
\* when hashing is requested for a request whose body is not available it
\* emits a header without hash.
HashOnlyWhenBodyAvailable ==
    \A id_ \in CallIds, key \in SignKeys, inc \in BOOLEAN, alg \in KnownAlgorithmArgs,
       rnd \in Nonces :
        LET out == SignRequestCall(request, id_, key, inc, alg, now, rnd)
        IN  /\ Has(out.params, "hash") => out.params.hash # HashNone
            /\ (inc /\ request.body = NoBody) =>
                   /\ out.exc = ""
                   /\ ~Has(out.request.authz, "hash")

\* C28: the header sign_request emits is a Hawk header with the given id; its
\* ts and its nonce are those of the starting parameters (the request's
\* header when it is a Hawk header, or the dict passed as params) when they
\* hold one, and the clock's and the random one otherwise; nothing of a
\* header of another scheme is in it.
StartingParametersKept ==
    \A id_ \in CallIds, key \in SignKeys, inc \in BOOLEAN, alg \in KnownAlgorithmArgs,
       rnd \in Nonces \ ReqNonces :
        /\ LET out == SignRequestCall(request, id_, key, inc, alg, now, rnd)
               a == out.request.authz
               start == IF IsHawk(request) THEN request.authz ELSE NoParams
           IN  out.exc = "" =>
                   /\ a.scheme = "Hawk" /\ a.id = id_
                   /\ a.ts = IF Has(start, "ts") THEN start.ts ELSE DecStr(now)
                   /\ a.nonce = IF Has(start, "nonce") THEN start.nonce ELSE rnd
                   /\ ~IsHawk(request) =>
                          DOMAIN a = {"scheme", "id", "ts", "nonce", "mac"}
                                         \cup (IF inc THEN {"hash"} ELSE {})
        /\ \A params \in ExplicitParams :
               LET out == SignRequestFrom(request, params, id_, key, inc, alg, now, rnd)
                   a == out.request.authz
               IN  out.exc = "" =>
                       /\ a.scheme = "Hawk" /\ a.id = id_
                       /\ a.ts = IF Has(params, "ts") THEN params.ts ELSE DecStr(now)
                       /\ a.nonce = IF Has(params, "nonce") THEN params.nonce ELSE rnd

\* sign_request has kept the ts of the Hawk header it found, which is not the
\* clock's
KeptTheTsOfTheHeader ==
    /\ last.op = "sign_request" /\ last.result = "None"
    /\ IsHawk(request)
    /\ Has(request.authz, "mac")
    /\ request.authz.id \in Ids
    /\ request.authz.ts # DecStr(now)

(***************************************************************************)
(* What check_nonce writes and what it remembers (SpecNonce).              *)
(***************************************************************************)
\* C29: a check_nonce call that returns False leaves the cache as it was; a
\* call that returns True leaves the map with the entry (True, timestamp)
\* for the nonce and no other new key, and the queue with what the purge
\* left of it and one entry (timestamp, nonce) more.
OnlyAcceptingCallsMutate ==
    \A timestamp \in TimestampsAt(now), nonce \in Nonces :
        LET nc == caches[0]
            out == CheckNonceCall(nc, timestamp, nonce, now)
            c == nc.seen
            after == out.cache.seen
        IN  IF ~out.result THEN out.cache = nc
            ELSE /\ nonce \in DOMAIN after.items
                 /\ after.items[nonce] = CacheItem(TRUE, timestamp)
                 /\ DOMAIN after.items \ DOMAIN c.items \subseteq {nonce}
                 /\ \E n \in 0..Len(c.purge_queue) :
                        after.purge_queue
                            = HeapPush(SubSeq(c.purge_queue, n + 1, Len(c.purge_queue)),
                                       <<timestamp, nonce>>)

\* a call has been refused for a nonce the cache held, at a time when an
\* entry of the map had expired, and the entry is still there
RefusedCallPurgedNothing ==
    /\ last.op = "check_nonce" /\ last.result = "False"
    /\ last.stage \in {"held", "held_other_ts"}
    /\ last.backlog
    /\ ExpiredKeys(caches[0].seen, now) # {}
    /\ Head(caches[0].seen.purge_queue)[1] + caches[0].seen.ttl <= now

\* the request sign_request makes for id_ and key of a request that carries
\* the timestamp and the nonce
SignedWithNonce(id_, key, include_payload_hash, timestamp, nonce) ==
    SignRequestCall([url |-> Url("http", ""), body |-> "",
                     authz |-> [scheme |-> "Hawk", ts |-> DecStr(timestamp),
                                nonce |-> nonce]],
                    id_, key, include_payload_hash, "None", now, nonce).request

\* the clients of C30: an id with its key
Signers == {<<"id1", "k1">>, <<"id2", "k2">>}

=============================================================================
